---- MODULE Spec2Model ----
(***************************************************************************)
(* A model of dating_bot.py (SoulMatch): the SQLite store (users,          *)
(* profiles, likes, matches, reports), the identity resolver, the profile  *)
(* dialogue, discovery and matching, account deletion, relay and report.   *)
(*                                                                         *)
(* Every handler is cut at its store statements: one action per            *)
(* `await db.execute(...)` (a write together with the commit that follows  *)
(* it, because SQLite shows a connection's writes to the other connections *)
(* only at its commit).  Each handler opens a connection of its own, so    *)
(* the handlers of different identities may interleave between two such    *)
(* statements; the events of one identity are handled one after another.   *)
(***************************************************************************)
EXTENDS Integers, Sequences, FiniteSets, Bags, TLC

\* ------------------------------------------------------------------ bounds
MaxId == 2          \* internal user ids handed out are capped at MaxId
MaxReports == 1     \* Report rows the store is allowed to hold

\* The external identities (chat ids) that talk to the bot; they are kept
\* apart from the internal ids 1, 2, ...
TgIds == {101, 102}
Ids == 1..MaxId

\* --------------------------------------------------------------- constants
\* Conversation states (range(5)) and ConversationHandler.END.
A_NAME == 0
A_AGE == 1
A_GENDER == 2
A_BIO == 3
A_PHOTO == 4
END == -1
MinNameLen == 2
MinAge == 18

\* SQL NULL / Python None, one per column type.
NullInt == -1
NullText == <<"NULL">>

\* ------------------------------------------------------------------- texts
\* A message text is a sequence of one-character strings.
Space == " "
Digits == {"0", "1", "2", "3", "4", "5", "6", "7", "8", "9"}
\* str.isdigit() also accepts digit characters that int() rejects.
SuperTwo == "^2"
DigitLike == Digits \cup {SuperTwo}

RECURSIVE LStrip(_)
LStrip(s) == IF s # <<>> /\ Head(s) = Space THEN LStrip(Tail(s)) ELSE s

RECURSIVE RStrip(_)
RStrip(s) ==
    IF s # <<>> /\ s[Len(s)] = Space THEN RStrip(SubSeq(s, 1, Len(s) - 1)) ELSE s

\* str.strip()
Strip(s) == LStrip(RStrip(s))

\* str.isdigit(): non-empty and every character a digit character.
IsDigit(s) == s # <<>> /\ \A i \in 1..Len(s) : s[i] \in DigitLike

DigitVal(c) ==
    CASE c = "0" -> 0 [] c = "1" -> 1 [] c = "2" -> 2 [] c = "3" -> 3
      [] c = "4" -> 4 [] c = "5" -> 5 [] c = "6" -> 6 [] c = "7" -> 7
      [] c = "8" -> 8 [] c = "9" -> 9

\* str(n) of a natural number.
RECURSIVE DigitsOf(_)
DigitsOf(n) ==
    LET d == CHOOSE c \in Digits : DigitVal(c) = n % 10
    IN  IF n < 10 THEN <<d>> ELSE Append(DigitsOf(n \div 10), d)

\* int() of a text that passed isdigit(): succeeds on decimal digits only.
IntOk(s) == \A i \in 1..Len(s) : s[i] \in Digits

RECURSIVE IntOf(_)
IntOf(s) == IF s = <<>> THEN 0 ELSE 10 * IntOf(SubSeq(s, 1, Len(s) - 1)) + DigitVal(s[Len(s)])

\* ------------------------------------------------------------------- state
VARIABLES
    users,      \* table users: set of rows [id, tg]
    profiles,   \* table profiles in storage (rowid) order: sequence of rows
    likes,      \* table likes: bag of rows [from_user, to_user]
    matches,    \* table matches: bag of rows [a, b] (active is 1 in every row)
    reports,    \* table reports: bag of rows [reporter_id, reported_id, reason]
    conv,       \* ConversationHandler state per identity
    user_data,  \* ctx.user_data per identity: a dict (function on its keys)
    buttons,    \* per identity: target ids of the Like/Skip buttons shown so far
    handler,    \* per identity: the handler now running ("none" when idle)
    pc,         \* per identity: the next statement of the running handler
    uid,        \* per identity: the id ensure_user returned (user_id, from_user, sender_id)
    target,     \* per identity: target_id / to_user_id / other of the handler
    reason,     \* per identity: the reason text of the report being handled
    out         \* what the latest step sent: [tg, answer, shown, to, failed, text]

db == <<users, profiles, likes, matches, reports>>
dialog == <<conv, user_data>>
locals == <<handler, pc, uid, target, reason>>
vars == <<users, profiles, likes, matches, reports, conv, user_data, buttons,
          handler, pc, uid, target, reason, out>>

\* What a step sent: `answer` to its caller tg (with the Like/Skip buttons of
\* candidate `shown`, when it shows one) and, when it tried to message
\* another chat, that chat's id `to` (0: no such attempt).  `failed` tells
\* that a side notification to `to` raised and was only logged.
Sent(tg, answer, shown, to) ==
    [tg |-> tg, answer |-> answer, shown |-> shown, to |-> to, failed |-> FALSE,
     text |-> <<>>]
Logged(sent) == [sent EXCEPT !.failed = TRUE]
\* The text that goes to `to`, where the model follows it.
Carrying(sent, text) == [sent EXCEPT !.text = text]
Silent == Sent(0, "none", 0, 0)

\* init_db: five empty tables; no conversation, no handler running.
Init ==
    /\ users = {}
    /\ profiles = <<>>
    /\ likes = EmptyBag
    /\ matches = EmptyBag
    /\ reports = EmptyBag
    /\ conv = [t \in TgIds |-> END]
    /\ user_data = [t \in TgIds |-> <<>>]
    /\ buttons = [t \in TgIds |-> {}]
    /\ handler = [t \in TgIds |-> "none"]
    /\ pc = [t \in TgIds |-> "idle"]
    /\ uid = [t \in TgIds |-> 0]
    /\ target = [t \in TgIds |-> 0]
    /\ reason = [t \in TgIds |-> <<>>]
    /\ out = Silent

\* ----------------------------------------------------------- store queries
Range(s) == {s[i] : i \in DOMAIN s}

\* SELECT id FROM users WHERE tg_id = ?
UserRowsOfTg(tg) == {u \in users : u.tg = tg}
\* SELECT tg_id FROM users WHERE id = ?
UserRowsOfId(id) == {u \in users : u.id = id}

\* INTEGER PRIMARY KEY without AUTOINCREMENT: the new rowid is max(rowid) + 1.
MaxOf(S) == CHOOSE m \in S : \A x \in S : x <= m
NextUserId == IF users = {} THEN 1 ELSE MaxOf({u.id : u \in users}) + 1

\* SELECT 1 FROM likes WHERE from_user = ? AND to_user = ?
LikeRow(f, t) == [from_user |-> f, to_user |-> t]
HasLike(f, t) == BagIn(LikeRow(f, t), likes)

\* SELECT 1 FROM matches WHERE (a = ? AND b = ?) OR (a = ? AND b = ?)
MatchRow(a, b) == [a |-> a, b |-> b]
\* The same SELECT without its second alternative: the pair is looked up in
\* the order given only.
HasMatchOrdered(x, y) == BagIn(MatchRow(x, y), matches)

HasMatch(x, y) == BagIn(MatchRow(x, y), matches) \/ BagIn(MatchRow(y, x), matches)

\* dict.get(key): None when the key is absent.
Get(d, k, null) == IF k \in DOMAIN d THEN d[k] ELSE null
\* d[key] = value
Put(d, k, v) == [x \in DOMAIN d \cup {k} |-> IF x = k THEN v ELSE d[x]]

\* The first statement of each handler's body, after ensure_user returned.
Entry(h) ==
    CASE h = "find" -> "find_query"
      [] h = "callback_like" -> "like_already"
      [] h = "callback_skip" -> "skip_reply"
      [] h = "relay" -> "relay_match"
      [] h = "report" -> "report_lookup"
      [] h = "profile_photo" -> "profile_save"
      [] h = "skip_photo" -> "profile_save"

\* The model hands out internal ids up to MaxId only: an event that would
\* create a User row past it is not taken.
CanResolve(tg) == UserRowsOfTg(tg) # {} \/ NextUserId <= MaxId

\* A handler's last statement and its answer: the connection is closed and
\* the handler's locals are gone.
Return(tg, sent) ==
    /\ handler' = [handler EXCEPT ![tg] = "none"]
    /\ pc' = [pc EXCEPT ![tg] = "idle"]
    /\ uid' = [uid EXCEPT ![tg] = 0]
    /\ target' = [target EXCEPT ![tg] = 0]
    /\ reason' = [reason EXCEPT ![tg] = <<>>]
    /\ out' = sent

Finish(tg, answer, shown, to) == Return(tg, Sent(tg, answer, shown, to))

\* A statement of a running handler that is not its last: the handler goes
\* on at `next` and nothing is sent.
Goto(tg, next) ==
    /\ pc' = [pc EXCEPT ![tg] = next]
    /\ out' = Silent
    /\ UNCHANGED <<handler, reason>>

\* An event of identity tg is dispatched to handler h, whose first store
\* statement is `first`.  One identity's events are handled one at a time.
Begin(tg, h, first) ==
    /\ pc[tg] = "idle"
    /\ handler' = [handler EXCEPT ![tg] = h]
    /\ pc' = [pc EXCEPT ![tg] = first]
    /\ out' = Silent
    /\ UNCHANGED uid

\* An event answered without any store statement.
Answer(tg, answer) ==
    /\ pc[tg] = "idle"
    /\ out' = Sent(tg, answer, 0, 0)
    /\ UNCHANGED <<handler, pc, uid, target, reason>>

\* --------------------------------------------------------------- ensure_user
\* ensure_user without its SELECT: it goes to the INSERT for every caller.
EnsureAlwaysInsert(tg) ==
    /\ pc[tg] = "ensure_select"
    /\ Goto(tg, "ensure_insert")
    /\ UNCHANGED <<db, dialog, buttons, uid, target>>

\* SELECT id FROM users WHERE tg_id = ?  (lines 92-95)
EnsureSelect(tg) ==
    /\ pc[tg] = "ensure_select"
    /\ IF UserRowsOfTg(tg) # {}
         THEN \E row \in UserRowsOfTg(tg) :
                /\ uid' = [uid EXCEPT ![tg] = row.id]
                /\ Goto(tg, Entry(handler[tg]))
         ELSE /\ Goto(tg, "ensure_insert")
              /\ UNCHANGED uid
    /\ UNCHANGED <<db, dialog, buttons, target>>

\* INSERT INTO users (tg_id, username, name); commit; return lastrowid
\* (100-105).  tg_id is UNIQUE (line 39): with a row of this tg_id in the
\* table the INSERT raises and the handler ends there without an answer.
EnsureInsert(tg) ==
    /\ pc[tg] = "ensure_insert"
    /\ IF UserRowsOfTg(tg) # {}
         THEN /\ Finish(tg, "Error", 0, 0)
              /\ UNCHANGED users
         ELSE /\ NextUserId <= MaxId
              /\ users' = users \cup {[id |-> NextUserId, tg |-> tg]}
              /\ uid' = [uid EXCEPT ![tg] = NextUserId]
              /\ Goto(tg, Entry(handler[tg]))
              /\ UNCHANGED target
    /\ UNCHANGED <<profiles, likes, matches, reports, dialog, buttons>>

\* ----------------------------------------------------------- profile dialogue
\* What a dialogue handler leaves: the state it returns, ctx.user_data and
\* its answer.
Turn(state, data, answer) == [state |-> state, data |-> data, answer |-> answer]

\* create_profile_start  (127-129)
StartTurn(data) == Turn(A_NAME, data, "AskName")

\* profile_name without the check of the name's length.
NameTurnUnchecked(data, text) == Turn(A_AGE, Put(data, "name", Strip(text)), "AskAge")

\* profile_name  (132-139)
NameTurn(data, text) ==
    LET name == Strip(text) IN
    IF Len(name) < MinNameLen THEN Turn(A_NAME, data, "BadName")
    ELSE Turn(A_AGE, Put(data, "name", name), "AskAge")

\* profile_age without the comparison with 18.
AgeTurnNoFloor(data, msg) ==
    LET text == Strip(msg) IN
    IF ~IsDigit(text) THEN Turn(A_AGE, data, "BadAge")
    ELSE IF ~IntOk(text) THEN Turn(A_AGE, data, "Error")
    ELSE Turn(A_GENDER, Put(data, "age", IntOf(text)), "AskGender")

\* profile_age  (142-153).  When int(text) raises ValueError the handler
\* returns nothing and the conversation keeps its state.
AgeTurn(data, msg) ==
    LET text == Strip(msg) IN
    IF ~IsDigit(text) THEN Turn(A_AGE, data, "BadAge")
    ELSE IF ~IntOk(text) THEN Turn(A_AGE, data, "Error")
    ELSE IF IntOf(text) < MinAge THEN Turn(END, data, "TooYoung")
    ELSE Turn(A_GENDER, Put(data, "age", IntOf(text)), "AskGender")

\* profile_gender  (156-159)
GenderTurn(data, text) == Turn(A_BIO, Put(data, "gender", Strip(text)), "AskBio")

\* profile_bio  (162-165)
BioTurn(data, text) == Turn(A_PHOTO, Put(data, "bio", Strip(text)), "AskPhoto")

\* The handler's result becomes the identity's conversation state.
Take(tg, turn) ==
    /\ Answer(tg, turn.answer)
    /\ conv' = [conv EXCEPT ![tg] = turn.state]
    /\ user_data' = [user_data EXCEPT ![tg] = turn.data]
    /\ UNCHANGED <<db, buttons>>

\* /create_profile: the conversation's entry point.  ConversationHandler
\* looks at its entry points only while the identity has no conversation
\* (allow_reentry is left False).  (421-431)
create_profile_start(tg) == conv[tg] = END /\ Take(tg, StartTurn(user_data[tg]))

\* /create_profile while the identity has a conversation: the entry point is
\* not looked at, no handler of the state takes a command other than /skip,
\* there are no fallbacks and no other handler is registered for the
\* command, so the update gets no answer and changes nothing.  (421-441)
create_profile_unhandled(tg) ==
    /\ conv[tg] # END
    /\ pc[tg] = "idle"
    /\ out' = Sent(tg, "none", 0, 0)
    /\ UNCHANGED <<db, dialog, buttons, locals>>

\* A text that is no command, in the state whose handler takes it.  (424-427)
profile_name(tg, text) == conv[tg] = A_NAME /\ Take(tg, NameTurn(user_data[tg], text))
profile_age(tg, text) == conv[tg] = A_AGE /\ Take(tg, AgeTurn(user_data[tg], text))
profile_gender(tg, text) == conv[tg] = A_GENDER /\ Take(tg, GenderTurn(user_data[tg], text))
profile_bio(tg, text) == conv[tg] = A_BIO /\ Take(tg, BioTurn(user_data[tg], text))

\* /create_profile and then the four texts, one after the other.
Interview(data, name, age, gender, bio) ==
    LET t1 == NameTurn(StartTurn(data).data, name)
        t2 == IF t1.state = A_AGE THEN AgeTurn(t1.data, age) ELSE t1
        t3 == IF t2.state = A_GENDER THEN GenderTurn(t2.data, gender) ELSE t2
    IN  IF t3.state = A_BIO THEN BioTurn(t3.data, bio) ELSE t3

\* A photo in A_PHOTO: remember its file id, then resolve the identity.
\* (168-174)
profile_photo(tg, file_id) ==
    /\ conv[tg] = A_PHOTO
    /\ CanResolve(tg)
    /\ Begin(tg, "profile_photo", "ensure_select")
    /\ user_data' = [user_data EXCEPT ![tg] = Put(@, "photo", file_id)]
    /\ UNCHANGED <<db, conv, buttons, target, reason>>

\* /skip in A_PHOTO.  (200-202, 428)
skip_photo(tg) ==
    /\ conv[tg] = A_PHOTO
    /\ CanResolve(tg)
    /\ Begin(tg, "skip_photo", "ensure_select")
    /\ UNCHANGED <<db, dialog, buttons, target, reason>>

\* The row INSERT OR REPLACE writes: skip_photo stores NULL as the photo.
ProfileRow(tg) ==
    [user_id |-> uid[tg],
     age |-> Get(user_data[tg], "age", NullInt),
     gender |-> Get(user_data[tg], "gender", NullText),
     bio |-> Get(user_data[tg], "bio", NullText),
     photo |-> IF handler[tg] = "profile_photo"
                 THEN Get(user_data[tg], "photo", NullText) ELSE NullText]

\* A plain INSERT INTO profiles: the user's earlier row stays.
InsertOnly(rows, row) == Append(rows, row)

\* INSERT OR REPLACE INTO profiles: user_id is UNIQUE, so the row of the
\* same user is removed and the new row gets the highest rowid.
Upsert(rows, row) ==
    LET Other(r) == r.user_id # row.user_id IN Append(SelectSeq(rows, Other), row)

\* UPDATE users SET name; INSERT OR REPLACE INTO profiles; commit; then
\* user_data.clear() and the conversation ends.  (175-197, 203-218)
ProfileSave(tg) ==
    /\ pc[tg] = "profile_save"
    /\ profiles' = Upsert(profiles, ProfileRow(tg))
    /\ user_data' = [user_data EXCEPT ![tg] = <<>>]
    /\ conv' = [conv EXCEPT ![tg] = END]
    /\ Finish(tg, "Saved", 0, 0)
    /\ UNCHANGED <<users, likes, matches, reports, buttons>>

\* An identity goes through the whole dialogue with no other event in
\* between: /create_profile, the four texts (their handlers touch nothing
\* but this identity's conversation) and /skip, whose handler then runs.
create_profile(tg, name, age, gender, bio) ==
    LET turn == Interview(user_data[tg], name, age, gender, bio) IN
    /\ conv[tg] = END
    /\ turn.state = A_PHOTO
    /\ CanResolve(tg)
    /\ Begin(tg, "skip_photo", "ensure_select")
    /\ conv' = [conv EXCEPT ![tg] = turn.state]
    /\ user_data' = [user_data EXCEPT ![tg] = turn.data]
    /\ UNCHANGED <<db, buttons, target, reason>>

\* ----------------------------------------------------------------- discovery
\* /find  (260-262)
find_handler(tg) ==
    /\ CanResolve(tg)
    /\ Begin(tg, "find", "ensure_select")
    /\ UNCHANGED <<db, dialog, buttons, target, reason>>

\* The discovery query without its NOT IN (SELECT to_user FROM likes ...).
EligibleLikedToo(user_id) ==
    {i \in DOMAIN profiles :
        /\ UserRowsOfId(profiles[i].user_id) # {}
        /\ profiles[i].user_id # user_id}

\* SELECT ... FROM profiles p JOIN users u ON p.user_id = u.id
\* WHERE p.user_id != ? AND p.user_id NOT IN (SELECT to_user FROM likes
\* WHERE from_user = ?): the positions of the rows it yields.  (263-273)
Eligible(user_id) ==
    {i \in DOMAIN profiles :
        /\ UserRowsOfId(profiles[i].user_id) # {}
        /\ profiles[i].user_id # user_id
        /\ ~HasLike(user_id, profiles[i].user_id)}

\* LIMIT 1 / fetchone(): the first such row in storage order; 0 stands for
\* "no row".
Candidate(user_id) ==
    IF Eligible(user_id) = {} THEN 0
    ELSE profiles[CHOOSE i \in Eligible(user_id) : \A j \in Eligible(user_id) : i <= j].user_id

\* The query and the answer: "No profiles available", or the profile with a
\* Like and a Skip button that carry the candidate's id.  (263-295)
FindQuery(tg) ==
    /\ pc[tg] = "find_query"
    /\ LET c == Candidate(uid[tg]) IN
         IF c = 0
           THEN /\ Finish(tg, "NoProfiles", 0, 0)
                /\ UNCHANGED buttons
           ELSE /\ Finish(tg, "Candidate", c, 0)
                /\ buttons' = [buttons EXCEPT ![tg] = @ \cup {c}]
    /\ UNCHANGED <<db, dialog>>

\* ------------------------------------------------------------------ callback
\* A press of a button shown earlier: callback_data "like:<id>" or
\* "skip:<id>" is split into the action and target_id.  (299-313)
callback_query_handler(tg, action, target_id) ==
    /\ target_id \in buttons[tg]
    /\ CanResolve(tg)
    /\ Begin(tg, IF action = "like" THEN "callback_like" ELSE "callback_skip",
             "ensure_select")
    /\ target' = [target EXCEPT ![tg] = target_id]
    /\ UNCHANGED <<db, dialog, buttons, reason>>

\* A skip that is remembered the way a like is: it writes the Like row.
SkipRecorded(tg) ==
    /\ pc[tg] = "skip_reply"
    /\ likes' = likes (+) SetToBag({LikeRow(uid[tg], target[tg])})
    /\ Finish(tg, "Skipped", 0, 0)
    /\ UNCHANGED <<users, profiles, matches, reports, dialog, buttons>>

\* action == "skip": only an answer.  (315-317)
SkipReply(tg) ==
    /\ pc[tg] = "skip_reply"
    /\ Finish(tg, "Skipped", 0, 0)
    /\ UNCHANGED <<db, dialog, buttons>>

\* The like handler without its look-up of an earlier Like: every press goes
\* on to the INSERT.
LikeAlwaysInsert(tg) ==
    /\ pc[tg] = "like_already"
    /\ Goto(tg, "like_insert")
    /\ UNCHANGED <<db, dialog, buttons, uid, target>>

\* SELECT 1 FROM likes WHERE from_user = ? AND to_user = ?  (320-322)
LikeAlready(tg) ==
    /\ pc[tg] = "like_already"
    /\ Goto(tg, IF HasLike(uid[tg], target[tg]) THEN "like_mutual" ELSE "like_insert")
    /\ UNCHANGED <<db, dialog, buttons, uid, target>>

\* INSERT INTO likes (from_user, to_user); commit  (323-324)
LikeInsert(tg) ==
    /\ pc[tg] = "like_insert"
    /\ likes' = likes (+) SetToBag({LikeRow(uid[tg], target[tg])})
    /\ Goto(tg, "like_mutual")
    /\ UNCHANGED <<users, profiles, matches, reports, dialog, buttons, uid, target>>

\* SELECT 1 FROM likes WHERE from_user = target_id AND to_user = from_user;
\* without a reciprocal like the answer is "Liked! Waiting".  (326-329, 347-349)
LikeMutual(tg) ==
    /\ pc[tg] = "like_mutual"
    /\ IF HasLike(target[tg], uid[tg])
         THEN /\ Goto(tg, "match_already")
              /\ UNCHANGED <<uid, target>>
         ELSE Finish(tg, "Liked", 0, 0)
    /\ UNCHANGED <<db, dialog, buttons>>

\* SELECT 1 FROM matches WHERE (a, b) is the pair in either order  (330-335)
MatchAlready(tg) ==
    /\ pc[tg] = "match_already"
    /\ Goto(tg, IF HasMatch(uid[tg], target[tg]) THEN "match_notify" ELSE "match_insert")
    /\ UNCHANGED <<db, dialog, buttons, uid, target>>

\* The INSERT INTO matches without its commit: the row is gone when the
\* handler's connection is closed and no other connection ever sees it.
MatchInsertUncommitted(tg) ==
    /\ pc[tg] = "match_insert"
    /\ Goto(tg, "match_notify")
    /\ UNCHANGED <<db, dialog, buttons, uid, target>>

\* INSERT INTO matches (a, b); commit  (336-337)
MatchInsert(tg) ==
    /\ pc[tg] = "match_insert"
    /\ matches' = matches (+) SetToBag({MatchRow(uid[tg], target[tg])})
    /\ Goto(tg, "match_notify")
    /\ UNCHANGED <<users, profiles, likes, reports, dialog, buttons, uid, target>>

\* The notification sent inside the Match's transaction: when it raises,
\* the handler ends with the error and the Match row is rolled back.
MatchNotifyOrUndo(tg) ==
    /\ pc[tg] = "match_notify"
    /\ IF UserRowsOfId(target[tg]) # {}
         THEN \E row \in UserRowsOfId(target[tg]), delivered \in BOOLEAN :
                IF delivered
                  THEN /\ Finish(tg, "Match", 0, row.tg)
                       /\ UNCHANGED matches
                  ELSE /\ Return(tg, Logged(Sent(tg, "Error", 0, row.tg)))
                       /\ matches' = [r \in BagToSet(matches) \
                                          {MatchRow(uid[tg], target[tg]),
                                           MatchRow(target[tg], uid[tg])} |-> matches[r]]
         ELSE Finish(tg, "Match", 0, 0) /\ UNCHANGED matches
    /\ UNCHANGED <<users, profiles, likes, reports, dialog, buttons>>

\* "It's a MATCH!" to the liker; SELECT tg_id FROM users WHERE id = target_id
\* and one attempt to tell the other party, whose failure is only logged.
\* (338-346)
MatchNotify(tg) ==
    /\ pc[tg] = "match_notify"
    /\ IF UserRowsOfId(target[tg]) # {}
         THEN \E row \in UserRowsOfId(target[tg]), delivered \in BOOLEAN :
                Return(tg, IF delivered THEN Sent(tg, "Match", 0, row.tg)
                           ELSE Logged(Sent(tg, "Match", 0, row.tg)))
         ELSE Finish(tg, "Match", 0, 0)
    /\ UNCHANGED <<db, dialog, buttons>>

\* ------------------------------------------------------------ delete_account
\* /delete_account  (242-243)
delete_account(tg) ==
    /\ Begin(tg, "delete_account", "delete_select")
    /\ UNCHANGED <<db, dialog, buttons, target, reason>>

\* SELECT id FROM users WHERE tg_id = ?; "No account found." without a row.
\* (244-249)
DeleteSelect(tg) ==
    /\ pc[tg] = "delete_select"
    /\ IF UserRowsOfTg(tg) = {}
         THEN Finish(tg, "NoAccount", 0, 0)
         ELSE \E row \in UserRowsOfTg(tg) :
                /\ uid' = [uid EXCEPT ![tg] = row.id]
                /\ Goto(tg, "delete_rows")
                /\ UNCHANGED target
    /\ UNCHANGED <<db, dialog, buttons>>

\* The five DELETE statements.  They run in one transaction, so the other
\* connections see all of them at once, at its commit.  (250-255)
ProfilesWithout(id) == LET Keep(r) == r.user_id # id IN SelectSeq(profiles, Keep)
\* DELETE FROM likes WHERE from_user = ? only: the likes received stay.
LikesSentWithout(id) ==
    LET keep == {r \in BagToSet(likes) : r.from_user # id}
    IN  [r \in keep |-> likes[r]]

LikesWithout(id) ==
    LET keep == {r \in BagToSet(likes) : r.from_user # id /\ r.to_user # id}
    IN  [r \in keep |-> likes[r]]
MatchesWithout(id) ==
    LET keep == {r \in BagToSet(matches) : r.a # id /\ r.b # id}
    IN  [r \in keep |-> matches[r]]
ReportsWithout(id) ==
    LET keep == {r \in BagToSet(reports) : r.reporter_id # id /\ r.reported_id # id}
    IN  [r \in keep |-> reports[r]]
UsersWithout(id) == {u \in users : u.id # id}

DeleteRows(tg) ==
    /\ pc[tg] = "delete_rows"
    /\ profiles' = ProfilesWithout(uid[tg])
    /\ likes' = LikesWithout(uid[tg])
    /\ matches' = MatchesWithout(uid[tg])
    /\ reports' = ReportsWithout(uid[tg])
    /\ users' = UsersWithout(uid[tg])
    /\ Finish(tg, "Deleted", 0, 0)
    /\ UNCHANGED <<dialog, buttons>>

\* --------------------------------------------------------------------- relay
\* A text message that is no command and that the conversation does not
\* take (its states A_NAME .. A_BIO take every such text).  (355-364, 421-441)
relay_messages(tg) ==
    /\ conv[tg] \notin {A_NAME, A_AGE, A_GENDER, A_BIO}
    /\ CanResolve(tg)
    /\ Begin(tg, "relay", "ensure_select")
    /\ UNCHANGED <<db, dialog, buttons, target, reason>>

\* The relay's SELECT put to the likes table: whoever the sender liked, or
\* was liked by, counts as matched.
LikedOf(id) ==
    {MatchRow(r.from_user, r.to_user) :
        r \in {l \in BagToSet(likes) : l.from_user = id \/ l.to_user = id}}

\* SELECT a, b FROM matches WHERE (a = ? OR b = ?) AND active = 1  (365)
MatchesOf(id) == {r \in BagToSet(matches) : r.a = id \/ r.b = id}

\* fetchone() (of several rows, the one the engine yields first) and
\* `other = b if a == sender_id else a`; without a row the answer is
\* "You don't have an active match".  (366-371)
RelayMatch(tg) ==
    /\ pc[tg] = "relay_match"
    /\ IF MatchesOf(uid[tg]) = {}
         THEN Finish(tg, "NoActiveMatch", 0, 0)
         ELSE \E match \in MatchesOf(uid[tg]) :
                /\ target' = [target EXCEPT ![tg] =
                                IF match.a = uid[tg] THEN match.b ELSE match.a]
                /\ Goto(tg, "relay_lookup")
                /\ UNCHANGED uid
    /\ UNCHANGED <<db, dialog, buttons>>

\* The text sent with the stored name of the sender as its label.
RelayTextNamed(sender_id, text) ==
    (CHOOSE u \in UserRowsOfId(sender_id) : TRUE).name \o <<":", "\n">> \o text

\* f"Anonymous#{sender_id}" + ":\n" + update.message.text  (378-380)
RelayText(sender_id, text) ==
    <<"Anonymous#">> \o DigitsOf(sender_id) \o <<":", "\n">> \o text

\* SELECT tg_id FROM users WHERE id = other; then one send_message to it,
\* which Telegram may refuse; `text` is update.message.text.  (372-384)
RelayLookup(tg, text) ==
    /\ pc[tg] = "relay_lookup"
    /\ IF UserRowsOfId(target[tg]) = {}
         THEN Finish(tg, "NoContact", 0, 0)
         ELSE \E row \in UserRowsOfId(target[tg]), delivered \in BOOLEAN :
                Return(tg, Carrying(Sent(tg, IF delivered THEN "Sent" ELSE "SendFailed",
                                         0, row.tg),
                                    RelayText(uid[tg], text)))
    /\ UNCHANGED <<db, dialog, buttons>>

\* -------------------------------------------------------------------- report
\* int(): an optional sign, then decimal digits, blanks around ignored.
Unsigned(s) == IF s # <<>> /\ Head(s) \in {"+", "-"} THEN Tail(s) ELSE s
PyIntOk(s) == Unsigned(Strip(s)) # <<>> /\ IntOk(Unsigned(Strip(s)))
PyInt(s) ==
    IF Strip(s) # <<>> /\ Head(Strip(s)) = "-"
      THEN 0 - IntOf(Unsigned(Strip(s))) ELSE IntOf(Unsigned(Strip(s)))

\* " ".join(words)
RECURSIVE Join(_)
Join(words) ==
    IF words = <<>> THEN <<>>
    ELSE IF Len(words) = 1 THEN words[1]
    ELSE words[1] \o <<Space>> \o Join(Tail(words))

\* /report <tg_id> <reason...>: the checks made before the store is used.
\* (388-400)
report_handler(tg, args) ==
    IF Len(args) < 2
      THEN /\ Answer(tg, "Usage")
           /\ UNCHANGED <<db, dialog, buttons>>
      ELSE IF ~PyIntOk(args[1])
        THEN /\ Answer(tg, "NotNumeric")
             /\ UNCHANGED <<db, dialog, buttons>>
        ELSE /\ CanResolve(tg)
             /\ BagCardinality(reports) < MaxReports
             /\ Begin(tg, "report", "ensure_select")
             /\ target' = [target EXCEPT ![tg] = PyInt(args[1])]
             /\ reason' = [reason EXCEPT ![tg] = Join(Tail(args))]
             /\ UNCHANGED <<db, dialog, buttons>>

\* SELECT id FROM users WHERE tg_id = target_tg; "User not found." without a
\* row.  (401-406)
ReportLookup(tg) ==
    /\ pc[tg] = "report_lookup"
    /\ IF UserRowsOfTg(target[tg]) = {}
         THEN Finish(tg, "UserNotFound", 0, 0)
         ELSE \E row \in UserRowsOfTg(target[tg]) :
                /\ target' = [target EXCEPT ![tg] = row.id]
                /\ Goto(tg, "report_insert")
                /\ UNCHANGED uid
    /\ UNCHANGED <<db, dialog, buttons>>

\* The row with reporter and reported in each other's place.
ReportRowSwapped(tg) ==
    [reporter_id |-> target[tg], reported_id |-> uid[tg], reason |-> reason[tg]]

\* INSERT INTO reports (reporter_id, reported_id, reason); commit  (407-409)
ReportRow(tg) == [reporter_id |-> uid[tg], reported_id |-> target[tg], reason |-> reason[tg]]

ReportInsert(tg) ==
    /\ pc[tg] = "report_insert"
    /\ BagCardinality(reports) < MaxReports
    /\ reports' = reports (+) SetToBag({ReportRow(tg)})
    /\ Finish(tg, "Reported", 0, 0)
    /\ UNCHANGED <<users, profiles, likes, matches, dialog, buttons>>

\* ------------------------------------------------------------------- inputs
\* Message texts the users send.
NameTexts == {<<Space, "A", Space>>, <<"A", "l">>, <<Space, "B", "o">>}
AgeTexts ==
    {<<"1", "7">>, <<"1", "8">>, <<"1", "9">>, <<Space, "9">>, <<"x">>, <<"-", "5">>, <<SuperTwo>>}
GenderTexts == {<<"F", Space>>}
BioTexts == {<<"h", "i">>}
PhotoIds == {<<"p", "1">>}
OneName == {<<"A", "l">>}
OneAge == {<<"2", "0">>}
OneGender == {<<"F">>}

\* Texts to relay.
RelayTexts == {<<"h", "i">>, <<"y", "o">>}

Spam == <<"s", "p", "a", "m">>
ReportArgs ==
    {<<DigitsOf(t), Spam>> : t \in TgIds \cup {100}}
        \cup {<<>>, <<DigitsOf(101)>>, <<<<"x">>, Spam>>}
        \cup {<<DigitsOf(102), <<"n", "o">>, Spam>>, <<<<SuperTwo>>, Spam>>}

\* ------------------------------------------------------------ specifications
AllIdle == \A t \in TgIds : pc[t] = "idle"

\* One store statement of the handler that identity tg is running: of
\* ensure_user and the profile's save,
SaveStep(tg) == EnsureSelect(tg) \/ EnsureInsert(tg) \/ ProfileSave(tg)

\* of /find and a Like press,
LikeStep(tg) ==
    \/ FindQuery(tg)
    \/ LikeAlready(tg)
    \/ LikeInsert(tg)
    \/ LikeMutual(tg)
    \/ MatchAlready(tg)
    \/ MatchInsert(tg)
    \/ MatchNotify(tg)

\* of /delete_account,
DeleteStep(tg) == DeleteSelect(tg) \/ DeleteRows(tg)

\* of the relay,
RelayStep(tg) == RelayMatch(tg) \/ \E text \in RelayTexts : RelayLookup(tg, text)

\* and of /report.
ReportStep(tg) == ReportLookup(tg) \/ ReportInsert(tg)

\* The profile dialogue of identity tg, message by message.
Dialogue(tg) ==
    \/ create_profile_start(tg)
    \/ create_profile_unhandled(tg)
    \/ \E text \in NameTexts : profile_name(tg, text)
    \/ \E text \in AgeTexts : profile_age(tg, text)
    \/ \E text \in GenderTexts : profile_gender(tg, text)
    \/ \E text \in BioTexts : profile_bio(tg, text)

\* Identity tg makes itself a profile.
Profile(tg) ==
    \E name \in OneName, age \in OneAge, gender \in OneGender, bio \in BioTexts :
        create_profile(tg, name, age, gender, bio)

\* A press of a Like or a Skip button.
Press(tg, actions) ==
    \E action \in actions, target_id \in Ids : callback_query_handler(tg, action, target_id)

\* Every handler runs to completion before the next event is taken.
Next ==
    \E tg \in TgIds :
        \/ AllIdle /\ Profile(tg)
        \/ AllIdle /\ find_handler(tg)
        \/ AllIdle /\ Press(tg, {"like", "skip"})
        \/ AllIdle /\ delete_account(tg)
        \/ SaveStep(tg) \/ LikeStep(tg) \/ SkipReply(tg) \/ DeleteStep(tg)

Spec == Init /\ [][Next]_vars

\* The same with text messages to relay.
NextRelay ==
    \E tg \in TgIds :
        \/ AllIdle /\ Profile(tg)
        \/ AllIdle /\ find_handler(tg)
        \/ AllIdle /\ Press(tg, {"like"})
        \/ AllIdle /\ delete_account(tg)
        \/ AllIdle /\ relay_messages(tg)
        \/ SaveStep(tg) \/ LikeStep(tg) \/ DeleteStep(tg) \/ RelayStep(tg)

SpecRelay == Init /\ [][NextRelay]_vars

\* The same with reports instead.
NextReport ==
    \E tg \in TgIds :
        \/ AllIdle /\ Profile(tg)
        \/ AllIdle /\ find_handler(tg)
        \/ AllIdle /\ Press(tg, {"like"})
        \/ AllIdle /\ delete_account(tg)
        \/ AllIdle /\ \E args \in ReportArgs : report_handler(tg, args)
        \/ SaveStep(tg) \/ LikeStep(tg) \/ DeleteStep(tg) \/ ReportStep(tg)

SpecReport == Init /\ [][NextReport]_vars

\* The handlers of different identities interleave between store statements.
NextConc ==
    \E tg \in TgIds :
        \/ Profile(tg)
        \/ find_handler(tg)
        \/ Press(tg, {"like"})
        \/ delete_account(tg)
        \/ SaveStep(tg) \/ LikeStep(tg) \/ DeleteStep(tg)

SpecConc == Init /\ [][NextConc]_vars

\* The same without account deletion.
NextRace ==
    \E tg \in TgIds :
        \/ Profile(tg)
        \/ find_handler(tg)
        \/ Press(tg, {"like"})
        \/ SaveStep(tg) \/ LikeStep(tg)

SpecRace == Init /\ [][NextRace]_vars

\* The profile dialogues on every message text, with account deletion.
NextDialog ==
    \E tg \in TgIds :
        \/ AllIdle /\ Dialogue(tg)
        \/ AllIdle /\ (skip_photo(tg) \/ \E file_id \in PhotoIds : profile_photo(tg, file_id))
        \/ AllIdle /\ delete_account(tg)
        \/ SaveStep(tg) \/ DeleteStep(tg)

SpecDialog == Init /\ [][NextDialog]_vars

\* The profile dialogues together with text messages that the conversation
\* does not take, which go to the relay (nobody is matched here, so the
\* relay ends at its first query).
NextRoute ==
    \E tg \in TgIds :
        \/ AllIdle /\ Dialogue(tg)
        \/ AllIdle /\ (skip_photo(tg) \/ \E file_id \in PhotoIds : profile_photo(tg, file_id))
        \/ AllIdle /\ relay_messages(tg)
        \/ SaveStep(tg) \/ RelayMatch(tg)

SpecRoute == Init /\ [][NextRoute]_vars

\* The relay for two matched users, over the usernames Telegram gives for
\* them and the names they have stored: a store as the dialogues, /find and
\* two likes leave it, with the users rows' columns username and name kept
\* (no query of the other specifications reads them, so their rows leave
\* the two columns out).
Usernames == {<<"a", "l", "1">>, <<"z", "e", "d">>}
StoredNames == {<<"A", "l">>, <<"B", "o">>}

Adult(user_id) ==
    [user_id |-> user_id, age |-> 20, gender |-> <<"F">>, bio |-> <<"h", "i">>,
     photo |-> NullText]

InitAnon ==
    /\ \E u1 \in Usernames, u2 \in Usernames, n1 \in StoredNames, n2 \in StoredNames :
          users = {[id |-> 1, tg |-> 101, username |-> u1, name |-> n1],
                   [id |-> 2, tg |-> 102, username |-> u2, name |-> n2]}
    /\ profiles = <<Adult(1), Adult(2)>>
    /\ likes = SetToBag({LikeRow(1, 2), LikeRow(2, 1)})
    /\ matches = SetToBag({MatchRow(2, 1)})
    /\ reports = EmptyBag
    /\ conv = [t \in TgIds |-> END]
    /\ user_data = [t \in TgIds |-> <<>>]
    /\ buttons = [t \in TgIds |-> IF t = 101 THEN {2} ELSE {1}]
    /\ handler = [t \in TgIds |-> "none"]
    /\ pc = [t \in TgIds |-> "idle"]
    /\ uid = [t \in TgIds |-> 0]
    /\ target = [t \in TgIds |-> 0]
    /\ reason = [t \in TgIds |-> <<>>]
    /\ out = Silent

NextAnon ==
    \E tg \in TgIds :
        \/ AllIdle /\ relay_messages(tg)
        \/ EnsureSelect(tg) \/ RelayStep(tg)

SpecAnon == InitAnon /\ [][NextAnon]_vars

\* --------------------------------------------------------------- properties
\* Rows of the matches table that join the unordered pair {x, y}.
MatchCount(x, y) ==
    CopiesIn(MatchRow(x, y), matches) + (IF x = y THEN 0 ELSE CopiesIn(MatchRow(y, x), matches))

MutualLike(x, y) == HasLike(x, y) /\ HasLike(y, x)

\* The internal id of an identity (0 without a User row).
IdOf(tg) == IF UserRowsOfTg(tg) = {} THEN 0 ELSE (CHOOSE u \in UserRowsOfTg(tg) : TRUE).id

\* C1: when every handler runs to completion before the next starts, then
\* between two events every pair of users with a Like in both directions has
\* exactly one Match row, in whatever order and however often they liked.
C1_MutualLikeOneMatch ==
    AllIdle => \A x, y \in Ids : MutualLike(x, y) => MatchCount(x, y) = 1

\* C1 witness: the second of two reciprocal likes was just answered
\* "It's a MATCH" and the pair of distinct users has its one Match row.
C1_Witness ==
    /\ out.answer = "Match"
    /\ \E x, y \in Ids : x # y /\ MutualLike(x, y) /\ MatchCount(x, y) = 1

\* C2: at most one Match row per unordered pair, also when the like handlers
\* of two identities interleave.
C2_AtMostOneMatch == \A x, y \in Ids : MatchCount(x, y) <= 1

\* C3: when two like handlers have raced (and no account was deleted), then
\* once no like handler is running any more, every pair with a Like in both
\* directions has at least one Match row: the race is not missed.
LikeRunning == \E tg \in TgIds : handler[tg] = "callback_like"

C3_RaceNotMissed ==
    ~LikeRunning => \A x, y \in Ids : MutualLike(x, y) => MatchCount(x, y) >= 1

\* C3 witness: both like handlers have finished after a true race, which
\* shows in the two Match rows that only interleaved handlers write.
C3_Witness ==
    /\ AllIdle
    /\ \E x, y \in Ids : x # y /\ MutualLike(x, y) /\ MatchCount(x, y) = 2

\* C4: at most one Like row per ordered pair in every state, and a like
\* pressed again for a pair that has its row is passed over without a write
\* and without an error: the handler goes on to the reciprocal check.
AtMostOneLike == \A f, t \in Ids : CopiesIn(LikeRow(f, t), likes) <= 1

RepeatedLike(tg) == pc[tg] = "like_already" /\ HasLike(uid[tg], target[tg])

RepeatSuppressed ==
    \A tg \in TgIds :
        RepeatedLike(tg) /\ pc'[tg] # pc[tg] => likes' = likes /\ pc'[tg] = "like_mutual"

C4_LikeIdempotent == []AtMostOneLike /\ [][RepeatSuppressed]_vars

\* C4 witness: a like pressed for a pair whose Like row exists, while the
\* other identity's handler is running too.
C4_Witness ==
    \E tg \in TgIds :
        /\ RepeatedLike(tg)
        /\ CopiesIn(LikeRow(uid[tg], target[tg]), likes) = 1
        /\ \E other \in TgIds \ {tg} : pc[other] # "idle"

\* C5: delete_account leaves no row that refers to the caller's id (no
\* Profile, no Like or Match on either side, no Report on either side, no
\* User row), a lookup of the identity then finds no user, and
\* delete_account for an identity without a User row answers "No account
\* found" and changes no table.
Refers(id, us, ps, ls, ms, rs) ==
    \/ \E u \in us : u.id = id
    \/ \E i \in DOMAIN ps : ps[i].user_id = id
    \/ \E r \in BagToSet(ls) : r.from_user = id \/ r.to_user = id
    \/ \E r \in BagToSet(ms) : r.a = id \/ r.b = id
    \/ \E r \in BagToSet(rs) : r.reporter_id = id \/ r.reported_id = id

DeleteComplete ==
    \A tg \in TgIds, id \in Ids :
        pc[tg] = "delete_rows" /\ uid[tg] = id /\ pc'[tg] = "idle" =>
            /\ ~Refers(id, users', profiles', likes', matches', reports')
            /\ \A u \in users' : u.tg # tg
            /\ out' = Sent(tg, "Deleted", 0, 0)

DeleteAgain ==
    \A tg \in TgIds :
        pc[tg] = "delete_select" /\ UserRowsOfTg(tg) = {} /\ pc'[tg] # pc[tg] =>
            /\ out' = Sent(tg, "NoAccount", 0, 0)
            /\ db' = db

C5_DeleteRemovesAll == [][DeleteComplete /\ DeleteAgain]_vars

\* C5 witness: delete_account is about to run its DELETEs for a user who has
\* a profile, a Like sent and one received, a Match and a Report.
C5_Witness ==
    \E tg \in TgIds :
        /\ pc[tg] = "delete_rows"
        /\ \E i \in DOMAIN profiles : profiles[i].user_id = uid[tg]
        /\ \E r \in BagToSet(likes) : r.from_user = uid[tg]
        /\ \E r \in BagToSet(likes) : r.to_user = uid[tg]
        /\ \E r \in BagToSet(matches) : r.a = uid[tg] \/ r.b = uid[tg]
        /\ \E r \in BagToSet(reports) : r.reporter_id = uid[tg] \/ r.reported_id = uid[tg]

\* C6: every Match row (a, b) has both Like rows a -> b and b -> a beside
\* it, also when a like handler interleaves with an account deletion.
C6_MatchHasLikes ==
    \A r \in BagToSet(matches) : HasLike(r.a, r.b) /\ HasLike(r.b, r.a)

\* C7: the relay gets to its send only with a Match row that holds the
\* sender and the recipient; a sender without a Match row is answered "You
\* don't have an active match" and nothing is sent to anybody else.
Matched(x, y) == \E r \in BagToSet(matches) : (r.a = x /\ r.b = y) \/ (r.a = y /\ r.b = x)

InMatch(x) == \E r \in BagToSet(matches) : r.a = x \/ r.b = x

RelayOnlyMatched ==
    /\ \A tg \in TgIds : pc[tg] = "relay_lookup" => Matched(uid[tg], target[tg])
    /\ out.answer \in {"Sent", "SendFailed"} =>
          out.to # 0 /\ Matched(IdOf(out.tg), IdOf(out.to))
    /\ out.answer = "NoActiveMatch" => out.to = 0 /\ ~InMatch(IdOf(out.tg))

RelayRefused ==
    \A tg \in TgIds :
        pc[tg] = "relay_match" /\ ~InMatch(uid[tg]) /\ pc'[tg] # pc[tg] =>
            out' = Sent(tg, "NoActiveMatch", 0, 0)

C7_RelayNeedsMatch == []RelayOnlyMatched /\ [][RelayRefused]_vars

\* C7 witness: a message was relayed to the other party of the sender's
\* match.
C7_Witness ==
    /\ out.answer = "Sent"
    /\ out.to # out.tg
    /\ Matched(IdOf(out.tg), IdOf(out.to))

\* C8: /find shows a profile of another user whom the requester has not
\* liked, and answers "No profiles available" only when the table holds no
\* such profile.
Showable(id) ==
    {profiles[i].user_id : i \in {j \in DOMAIN profiles :
                                    profiles[j].user_id # id /\ ~HasLike(id, profiles[j].user_id)}}

C8_FindCandidate ==
    /\ out.answer = "Candidate" => out.shown \in Showable(IdOf(out.tg))
    /\ out.answer = "NoProfiles" => Showable(IdOf(out.tg)) = {}

\* C8 witness: /find has answered "No profiles available" to a requester
\* who has liked the only other profile, while the requester's own profile
\* is in the table.
C8_Witness ==
    /\ out.answer = "NoProfiles"
    /\ \E i \in DOMAIN profiles : profiles[i].user_id = IdOf(out.tg)
    /\ \E i \in DOMAIN profiles : HasLike(IdOf(out.tg), profiles[i].user_id)

\* C9: there is at most one User row per chat id, a handler that has
\* resolved its caller holds the id of that one row, and the id of an
\* identity does not change while its row is there.
Resolving == {"idle", "ensure_select", "ensure_insert", "delete_select"}

OneUserRow ==
    \A tg \in TgIds :
        /\ Cardinality(UserRowsOfTg(tg)) <= 1
        /\ pc[tg] = "ensure_insert" => UserRowsOfTg(tg) = {}
        /\ pc[tg] \notin Resolving => UserRowsOfTg(tg) = {[id |-> uid[tg], tg |-> tg]}

SameId ==
    \A tg \in TgIds :
        LET before == {u \in users : u.tg = tg}
            after == {u \in users' : u.tg = tg}
        IN  before # {} /\ after # {} => before = after

C9_ResolverIdempotent == []OneUserRow /\ [][SameId]_vars

\* C9 witness: the resolver is called for an identity that has its User
\* row, while the other identity's handler is in the resolver too.
C9_Witness ==
    \E tg \in TgIds :
        /\ pc[tg] = "ensure_select"
        /\ UserRowsOfTg(tg) # {}
        /\ \E other \in TgIds \ {tg} : pc[other] \in {"ensure_select", "ensure_insert"}

\* C10: every Profile row has an age of 18 or more, and an age below 18
\* ends the dialogue and writes nothing to the store.
AdultProfiles == \A i \in DOMAIN profiles : profiles[i].age >= MinAge

Rejected ==
    out'.answer = "TooYoung" /\ out' # out => db' = db /\ conv'[out'.tg] = END

C10_NoMinorProfile == []AdultProfiles /\ [][Rejected]_vars

\* C10 witness: an identity was just turned away for its age, and the
\* profile it saved, after an earlier rejection or before, is in the table.
C10_Witness ==
    /\ out.answer = "TooYoung"
    /\ \E i \in DOMAIN profiles : profiles[i].user_id = IdOf(out.tg)

\* C11: a Skip press changes none of the five tables: no step of the
\* handler of a Skip press writes to users, profiles, likes, matches or
\* reports.
SkipWritesNothing ==
    \A tg \in TgIds : handler[tg] = "callback_skip" /\ pc'[tg] # pc[tg] => db' = db

C11_SkipNoEffect == [][SkipWritesNothing]_vars

\* C11, as the handler has it: a Skip press leaves profiles, likes, matches
\* and reports as they were, and users too but for the User row that
\* ensure_user adds for a caller who has none; the candidate that /find
\* would show the caller is the same after the skip as before it.
SkipKeepsStore ==
    \A tg \in TgIds :
        handler[tg] = "callback_skip" /\ pc'[tg] # pc[tg] =>
            /\ UNCHANGED <<profiles, likes, matches, reports>>
            /\ UserRowsOfTg(tg) # {} => users' = users
            /\ \A u \in users' \ users : u.tg = tg

SkipResurfaces ==
    \A tg \in TgIds, u \in Ids, c \in Ids :
        pc[tg] = "skip_reply" /\ pc'[tg] = "idle" /\ uid[tg] = u /\ Candidate(u) = c =>
            (Candidate(u) = c)'

C11_SkipKeepsStore == [][SkipKeepsStore /\ SkipResurfaces]_vars

\* C11 witness: a Skip press was just answered and the candidate /find
\* would show its caller is one whose buttons the caller was shown.
C11_Witness ==
    /\ out.answer = "Skipped"
    /\ Candidate(IdOf(out.tg)) # 0
    /\ Candidate(IdOf(out.tg)) \in buttons[out.tg]

\* C12: /report with two or more arguments, a numeric first argument and a
\* target that has a User row adds exactly one Report row: the caller's id,
\* the target's id and the other arguments joined by blanks.  With fewer
\* arguments, a first argument that is no number or a target without a User
\* row the answer is the error for it and no Report row is added.
ChatOf(word) ==
    CASE word = <<"1", "0", "0">> -> 100
      [] word = <<"1", "0", "1">> -> 101
      [] word = <<"1", "0", "2">> -> 102
      [] OTHER -> 0

ReasonOf(args) ==
    IF Len(args) = 2 THEN args[2] ELSE args[2] \o <<" ">> \o args[3]

ReportChecks ==
    \A tg \in TgIds, args \in ReportArgs :
        report_handler(tg, args) =>
            IF Len(args) < 2 THEN out' = Sent(tg, "Usage", 0, 0) /\ db' = db
            ELSE IF ChatOf(args[1]) = 0 THEN out' = Sent(tg, "NotNumeric", 0, 0) /\ db' = db
            ELSE /\ handler'[tg] = "report"
                 /\ target'[tg] = ChatOf(args[1])
                 /\ reason'[tg] = ReasonOf(args)
                 /\ db' = db

ReportRuns ==
    \A tg \in TgIds :
        handler[tg] = "report" /\ pc'[tg] # pc[tg] =>
            CASE pc[tg] = "report_lookup" ->
                    IF \E u \in users : u.tg = target[tg]
                      THEN /\ \E u \in users : u.tg = target[tg] /\ target'[tg] = u.id
                           /\ reason'[tg] = reason[tg]
                           /\ pc'[tg] = "report_insert"
                           /\ db' = db
                      ELSE out' = Sent(tg, "UserNotFound", 0, 0) /\ db' = db
              [] pc[tg] = "report_insert" ->
                    /\ reports' = reports (+) SetToBag({[reporter_id |-> IdOf(tg),
                                                         reported_id |-> target[tg],
                                                         reason |-> reason[tg]]})
                    /\ UNCHANGED <<users, profiles, likes, matches>>
                    /\ out' = Sent(tg, "Reported", 0, 0)
              [] OTHER ->
                    /\ reports' = reports
                    /\ target'[tg] = target[tg]
                    /\ reason'[tg] = reason[tg]

C12_ReportAddsOneRow == [][ReportChecks /\ ReportRuns]_vars

\* C12 witness: a report of the other user with a reason of two words was
\* just recorded.
C12_Witness ==
    /\ out.answer = "Reported"
    /\ \E r \in BagToSet(reports) :
          /\ r.reporter_id = IdOf(out.tg)
          /\ r.reported_id # r.reporter_id
          /\ r.reason = <<"n", "o", " ", "s", "p", "a", "m">>

\* C13: when the notification of a match to the other party fails, the
\* handler still ends with "It's a MATCH" for the liker, its last step
\* changes no table, and the pair's Like rows and Match row are in the store.
NotifyKeepsRows ==
    \A tg \in TgIds :
        pc[tg] = "match_notify" /\ pc'[tg] # pc[tg] =>
            /\ db' = db
            /\ pc'[tg] = "idle"
            /\ out'.tg = tg /\ out'.answer = "Match"

FailedNotifyLeavesMatch ==
    out.failed =>
        /\ out.answer = "Match"
        /\ HasLike(IdOf(out.tg), IdOf(out.to))
        /\ HasLike(IdOf(out.to), IdOf(out.tg))
        /\ MatchCount(IdOf(out.tg), IdOf(out.to)) = 1

C13_NotifyFailureKeepsLike == []FailedNotifyLeavesMatch /\ [][NotifyKeepsRows]_vars

\* C13 witness: the notification of a match of two different users has just
\* failed.
C13_Witness == out.failed /\ out.to # out.tg /\ out.to # 0

\* C14: every Like, Match and Report row refers only to ids that have a
\* User row.
IsUser(id) == \E u \in users : u.id = id

C14_ReferentialIntegrity ==
    /\ \A r \in BagToSet(likes) : IsUser(r.from_user) /\ IsUser(r.to_user)
    /\ \A r \in BagToSet(matches) : IsUser(r.a) /\ IsUser(r.b)
    /\ \A r \in BagToSet(reports) : IsUser(r.reporter_id) /\ IsUser(r.reported_id)

\* C15: the relay handler runs for a text message only of an identity that
\* has no profile dialogue going on.
C15_TextGoesToDialogue == \A tg \in TgIds : handler[tg] = "relay" => conv[tg] = END

\* C16: the /create_profile command of an identity whose dialogue is not
\* finished takes the dialogue back to A_NAME with nothing collected.
CreateProfileCommand(tg) == create_profile_start(tg) \/ create_profile_unhandled(tg)

RestartResets ==
    \A tg \in TgIds :
        conv[tg] # END /\ CreateProfileCommand(tg) =>
            conv'[tg] = A_NAME /\ user_data'[tg] = <<>>

C16_RestartResets == [][RestartResets]_vars

\* C17: the save that ends the dialogue, by photo or by /skip, leaves one
\* Profile row for the caller with the age, gender and bio of this dialogue
\* and the photo's file id (NULL after /skip), leaves the other users' rows
\* alone and empties the caller's transient state; no user ever has two
\* Profile rows, and no age, gender or bio outlives the dialogue it was
\* collected in.
RowsOf(ps, id) == {i \in DOMAIN ps : ps[i].user_id = id}

OneProfilePerUser == \A id \in Ids : Cardinality(RowsOf(profiles, id)) <= 1

NothingLeftOver ==
    \A tg \in TgIds :
        conv[tg] = END /\ pc[tg] = "idle" => DOMAIN user_data[tg] \subseteq {"name"}

SaveWritesOneRow ==
    \A tg \in TgIds, id \in Ids :
        pc[tg] = "profile_save" /\ pc'[tg] # pc[tg] /\ uid[tg] = id =>
            /\ id = IdOf(tg)
            /\ {"age", "gender", "bio"} \subseteq DOMAIN user_data[tg]
            /\ \E i \in DOMAIN profiles' :
                  /\ RowsOf(profiles', id) = {i}
                  /\ profiles'[i].age = user_data[tg]["age"]
                  /\ profiles'[i].gender = user_data[tg]["gender"]
                  /\ profiles'[i].bio = user_data[tg]["bio"]
                  /\ profiles'[i].photo =
                        IF handler[tg] = "profile_photo" THEN user_data[tg]["photo"] ELSE NullText
            /\ {r \in Range(profiles') : r.user_id # id} = {r \in Range(profiles) : r.user_id # id}
            /\ user_data'[tg] = <<>>
            /\ conv'[tg] = END
            /\ UNCHANGED <<users, likes, matches, reports>>

C17_SaveUpsertsProfile ==
    /\ [](OneProfilePerUser /\ NothingLeftOver)
    /\ [][SaveWritesOneRow]_vars

\* C17 witness: a dialogue ended by a photo is about to save a row for a
\* user whose earlier row has another age and no photo.
C17_Witness ==
    \E tg \in TgIds :
        /\ pc[tg] = "profile_save"
        /\ handler[tg] = "profile_photo"
        /\ \E i \in DOMAIN profiles :
              /\ profiles[i].user_id = uid[tg]
              /\ profiles[i].age # user_data[tg]["age"]
              /\ profiles[i].photo = NullText

\* C18: a name of fewer than two characters between its blanks, in A_NAME,
\* and an age text that is no non-negative decimal number, in A_AGE, leave
\* the conversation state, the collected fields and the five tables as they
\* were.
Inked(text) == {i \in DOMAIN text : text[i] # " "}

TrimmedLen(text) ==
    IF Inked(text) = {} THEN 0
    ELSE (CHOOSE i \in Inked(text) : \A j \in Inked(text) : j <= i)
         - (CHOOSE i \in Inked(text) : \A j \in Inked(text) : i <= j) + 1

NonNegativeNumber(text) ==
    /\ Inked(text) # {}
    /\ Cardinality(Inked(text)) = TrimmedLen(text)
    /\ \A i \in Inked(text) : text[i] \in {"0", "1", "2", "3", "4", "5", "6", "7", "8", "9"}

Stays(tg) == conv'[tg] = conv[tg] /\ user_data' = user_data /\ db' = db

BadInputStays ==
    \A tg \in TgIds :
        /\ \A text \in NameTexts :
              profile_name(tg, text) /\ TrimmedLen(text) < 2 => Stays(tg)
        /\ \A text \in AgeTexts :
              profile_age(tg, text) /\ ~NonNegativeNumber(text) => Stays(tg)

C18_BadInputStays == [][BadInputStays]_vars

\* C18 witness: an age text that passed isdigit() and made int() raise was
\* just handled, and the dialogue is in A_AGE with the name it collected.
C18_Witness ==
    /\ out.answer = "Error"
    /\ out.tg \in TgIds
    /\ conv[out.tg] = A_AGE
    /\ "name" \in DOMAIN user_data[out.tg]

\* C19: what the relay sends to the other party is "Anonymous#", the
\* sender's internal id, a colon, a line break and the message text, whatever
\* username and name the sender has; neither of the two occurs in it.
IdText(id) == CASE id = 1 -> <<"1">> [] id = 2 -> <<"2">> [] OTHER -> <<"?">>

Occurs(word, text) ==
    \E i \in 1..(Len(text) - Len(word) + 1) : SubSeq(text, i, i + Len(word) - 1) = word

C19_RelayAnonymous ==
    out.answer \in {"Sent", "SendFailed"} =>
        /\ \E text \in RelayTexts :
              out.text = <<"Anonymous#">> \o IdText(IdOf(out.tg)) \o <<":", "\n">> \o text
        /\ \A u \in UserRowsOfTg(out.tg) :
              ~Occurs(u.name, out.text) /\ ~Occurs(u.username, out.text)

\* C19 witness: a message of a sender with a stored name and a username
\* was relayed to the sender's match.
C19_Witness ==
    /\ out.answer = "Sent"
    /\ out.to # out.tg
    /\ \E u \in UserRowsOfTg(out.tg) : u.name = <<"B", "o">> /\ u.username = <<"z", "e", "d">>

\* C20: no Like row goes from a user to that same user and no Match row
\* joins a user with that same user, when every Like press carries a target
\* that /find has shown to the identity that presses.
C20_NoSelfLike ==
    /\ \A r \in BagToSet(likes) : r.from_user # r.to_user
    /\ \A r \in BagToSet(matches) : r.a # r.b

====
